---------------------------- MODULE Spec2Model ----------------------------
(***************************************************************************)
(* A model of the thread governor (ricleite/governor), taken from          *)
(* src/governor_impl.cpp and src/governor_impl.h: the registry of          *)
(* subscribed threads, the active-thread gate, the chooser, the sequence   *)
(* store with Reset, and the memory-mapped backing file with its textual   *)
(* record format.                                                          *)
(*                                                                         *)
(* The core mutex serialises every critical section; the only accesses     *)
(* outside it are the loads of _activeThreadId in the spin loop of         *)
(* ControlPoint.  A call of ControlPoint or Unsubscribe is therefore two   *)
(* steps: taking the mutex and changing the registry, then                 *)
(* UpdateActiveThread (which stores to the gate) and the release of the    *)
(* mutex.  The spin loop is a third step.                                  *)
(***************************************************************************)
EXTENDS Integers, Sequences, FiniteSets, TLC

(***************************************************************************)
(* Bounds of the model.                                                    *)
(***************************************************************************)
\* number of OS threads that may use the governor
NumThreads == 2
\* largest user-supplied threadId (ids are 0..MaxId, so gaps can occur)
MaxId == 2
\* longest sequence of SchedPoints a process builds before the model stops
\* entering further control points
MaxSched == 2
\* number of processes run one after the other on the same backing file
MaxProcs == 2
\* most control points a thread of the program under test calls in a run
MaxCps == 2
\* runs a process makes in RUN_RANDOM and RUN_PRESET, where nothing else
\* ends the driver's loop
MaxRuns == 2
\* most Reset calls the driver makes in a row
MaxResets == 2
\* longest sequence written and read back in the round trip
MaxLen == 2
\* largest field of a SchedPoint in the round trip (two digits)
MaxField == 10
\* the page size of the mapping, scaled down from 1 << 12
\* (src/governor_impl.cpp:36) so that a few records force the file to grow
PAGE == 8

Threads == 1..NumThreads
Ids == 0..MaxId
\* std::thread::id(): "an id that does not represent a thread"
NoThread == 0
Modes == {"RUN_RANDOM", "RUN_EXPLORE", "RUN_PRESET"}

(***************************************************************************)
(* Characters of the backing file.  NUL is the zero byte of a fresh or     *)
(* cleared mapping.                                                        *)
(***************************************************************************)
NUL == ""
DigitChars == <<"0", "1", "2", "3", "4", "5", "6", "7", "8", "9">>
WhiteSpace == {" ", "\n"}

IsDigit(c) == \E d \in 1..10 : DigitChars[d] = c

DigitVal(c) == (CHOOSE d \in 1..10 : DigitChars[d] = c) - 1

Min(a, b) == IF a < b THEN a ELSE b

\* the byte at 0-based offset i of a buffer; the buffer "can be assumed to
\* have at least one ending \0"
CharAt(buf, i) == IF i < Len(buf) THEN buf[i + 1] ELSE NUL

\* printf's %lu
RECURSIVE FormatUInt(_)
FormatUInt(n) ==
    IF n < 10 THEN <<DigitChars[n + 1]>>
    ELSE FormatUInt(n \div 10) \o <<DigitChars[(n % 10) + 1]>>

\* the text "%lu %lu %lu\n" of one SchedPoint
FormatSchedPoint(sp) ==
    FormatUInt(sp.threadId) \o <<" ">> \o FormatUInt(sp.available) \o <<" ">>
        \o FormatUInt(sp.higher) \o <<"\n">>

\* n zero bytes
Zeros(n) == [i \in 1..n |-> NUL] \o <<>>

\* snprintf(&dst[at], Len(dst) - at, text): at most size - 1 characters of
\* the text are stored, followed by a terminating NUL
Snprintf(dst, at, text) ==
    LET size == Len(dst) - at
        n == Min(Len(text), size - 1)
    IN  IF size <= 0 THEN dst
        ELSE SubSeq(dst, 1, at) \o SubSeq(text, 1, n) \o <<NUL>>
                 \o SubSeq(dst, at + n + 2, Len(dst))

\* MapFileToMem(size): ftruncate cuts the file or extends it with zero bytes,
\* and the file is mapped again
MapFileToMem(old, size) ==
    IF size <= Len(old) THEN SubSeq(old, 1, size)
    ELSE old \o Zeros(size - Len(old))

\* a variant of WriteToFile: after the file is doubled the text is not
\* printed again (a break in the place of the retry)
WriteToFileNoRetry(mem, idx, text) ==
    IF idx + Len(text) < Len(mem)
    THEN [filePtr |-> Snprintf(mem, idx, text), fileIdx |-> idx + Len(text)]
    ELSE [filePtr |-> MapFileToMem(Snprintf(mem, idx, text), Len(mem) * 2),
          fileIdx |-> idx + Len(text)]

\* the write loop shared by ChooseThread and HandleOutFile(true): print at
\* _fileIdx; if the text and its NUL do not fit, double the file and retry
RECURSIVE WriteToFile(_, _, _)
WriteToFile(mem, idx, text) ==
    IF idx + Len(text) < Len(mem)
    THEN [filePtr |-> Snprintf(mem, idx, text), fileIdx |-> idx + Len(text)]
    ELSE WriteToFile(MapFileToMem(Snprintf(mem, idx, text), Len(mem) * 2),
                     idx, text)

\* sscanf skipping white space: the offset of the first non-space byte
RECURSIVE SkipSpace(_, _)
SkipSpace(wbuf, i) ==
    IF CharAt(wbuf, i) \in WhiteSpace THEN SkipSpace(wbuf, i + 1) ELSE i

\* the digits of a %lu conversion starting at offset i, with value acc so far
RECURSIVE ScanDigits(_, _, _)
ScanDigits(dbuf, i, acc) ==
    IF IsDigit(CharAt(dbuf, i))
    THEN ScanDigits(dbuf, i + 1, acc * 10 + DigitVal(CharAt(dbuf, i)))
    ELSE [val |-> acc, next |-> i]

\* one %lu conversion whose digits would start at offset s
ScanUIntAt(ubuf, s) ==
    IF IsDigit(CharAt(ubuf, s))
    THEN [ok |-> TRUE] @@ ScanDigits(ubuf, s, 0)
    ELSE [ok |-> FALSE, val |-> 0, next |-> s]

\* one %lu conversion at offset i: leading white space is skipped, then at
\* least one digit is needed
ScanUInt(ubuf, i) == ScanUIntAt(ubuf, SkipSpace(ubuf, i))

\* the result of SchedPoint::read from the three conversions a, b, c: the
\* number of characters consumed (%n, after the trailing white space), 0
\* when three numbers were not read
SchedPointOf(buffer, i, a, b, c) ==
    IF a.ok /\ b.ok /\ c.ok
    THEN [nchars |-> SkipSpace(buffer, c.next) - i,
          sp |-> [threadId |-> a.val, available |-> b.val, higher |-> c.val]]
    ELSE [nchars |-> 0,
          sp |-> [threadId |-> 0, available |-> 0, higher |-> 0]]

ScanThird(buffer, i, a, b) ==
    SchedPointOf(buffer, i, a, b, ScanUInt(buffer, b.next))

ScanSecond(buffer, i, a) == ScanThird(buffer, i, a, ScanUInt(buffer, a.next))

\* SchedPoint::read at offset i: sscanf(buffer, "%lu %lu %lu\n%n")
SchedPointRead(buffer, i) == ScanSecond(buffer, i, ScanUInt(buffer, i))

\* the read loop of HandleOutFile(false): records from offset ridx on
RECURSIVE ReadSched(_, _, _)
RECURSIVE ReadSchedStep(_, _, _, _)
ReadSchedStep(rbuf, ridx, acc, r) ==
    IF r.nchars > 0
    THEN ReadSched(rbuf, ridx + r.nchars, Append(acc, r.sp))
    ELSE [sched |-> acc, fileIdx |-> ridx]

ReadSched(rbuf, ridx, acc) ==
    ReadSchedStep(rbuf, ridx, acc, SchedPointRead(rbuf, ridx))

\* sscanf(&_filePtr[_fileIdx], "END\n%n", &nchars); _schedDone = nchars > 0
ScanEnd(ebuf, eidx) ==
    /\ CharAt(ebuf, eidx) = "E"
    /\ CharAt(ebuf, eidx + 1) = "N"
    /\ CharAt(ebuf, eidx + 2) = "D"

EndText == <<"E", "N", "D", "\n">>

(***************************************************************************)
(* State.  The fields of Governor keep their names; _fileSize is the       *)
(* length of the mapping filePtr, and the backing file's content is the    *)
(* mapping's (MAP_SHARED).                                                 *)
(***************************************************************************)
VARIABLES
    runMode,          \* _runMode, fixed by the constructor
    filePtr,          \* the mapped bytes of gov.data
    fileIdx,          \* _fileIdx, offset of the next write
    sched,            \* _sched
    schedIdx,         \* _schedIdx
    schedDone,        \* _schedDone
    threadsToSub,     \* _threadsToSub
    threads,          \* _threads: thread -> [threadId, isInControlPoint]
    threadIds,        \* _threadIds: threadId -> thread
    activeThreadId,   \* _activeThreadId, the gate
    mutex,            \* owner of _mutex, NoThread when free
    pc,               \* where each thread is: "run", "cp_locked",
                      \* "unsub_locked" (both inside the critical section,
                      \* before UpdateActiveThread) or "spin"
    procState,        \* "running", "exited", "crashed" or the reason of
                      \* the std::abort() that ended the process
    procs,            \* number of processes started so far
    ret,              \* result of the last Reset call: "none", "true",
                      \* "false"
    hist,             \* threadIds chosen since the last Reset call
    released,         \* thread -> it returned from ControlPoint's spin loop
                      \* and has not called ControlPoint or Unsubscribe since
    selected,         \* thread -> a decision made since it entered its
                      \* control point chose it
    recorded,         \* choices of the previous process, if it made one
                      \* run and exited, or of its last run if it was a
                      \* RUN_EXPLORE process that exited after joining
                      \* it; <<-1>> otherwise
    recordedMode,     \* mode of the previous process ("none" at first)
    dpc,              \* position of the driver of the program under test
    prog,             \* thread -> position in the program under test
    remaining,        \* thread -> control points it still has to call
    cps,              \* thread -> control points per run (the program);
                      \* 0 for a thread the program does not start
    idOf,             \* thread -> the threadId it subscribes with
    runs,             \* choice sequences of the runs joined (RUN_EXPLORE)
    lastRun,          \* choice sequence of the last run joined
    prevRun,          \* choice sequence of the run joined before it
    runCount,         \* runs joined by this process
    resets,           \* Reset calls since the last run was joined
    input             \* the sequence the round trip writes; the value of
                      \* GOV_MODE where the mode is read from it

fileVars == <<filePtr, fileIdx>>
seqVars == <<sched, schedIdx, schedDone>>
regVars == <<threadsToSub, threads, threadIds>>
ghostVars == <<released, selected>>
procVars == <<runMode, procState, procs, recorded, recordedMode>>
runVars == <<runs, lastRun, prevRun, runCount>>
progVars == <<dpc, prog, remaining, cps, idOf, runs, lastRun, prevRun,
              runCount, resets, input>>
vars == <<runMode, filePtr, fileIdx, sched, schedIdx, schedDone, threadsToSub,
          threads, threadIds, activeThreadId, mutex, pc, procState, procs,
          ret, hist, released, selected, recorded, recordedMode, dpc, prog,
          remaining, cps, idOf, runs, lastRun, prevRun, runCount, resets,
          input>>

Writing(mode) == mode \in {"RUN_RANDOM", "RUN_EXPLORE"}

AbortReasons ==
    {"explore_last_state", "sub_already", "sub_unexpected", "sub_id_used",
     "preset_no_sched", "preset_invalid_id", "preset_available",
     "preset_higher", "assert_idx", "assert_lookup"}

Aborted == procState \in AbortReasons

Running == procState = "running"

\* a function without the key k
Without(f, k) == [x \in DOMAIN f \ {k} |-> f[x]]

\* GetThreadState() of thread t: is it subscribed
Subscribed(t) == t \in DOMAIN threads

\* std::count_if(_threadIds, p.first > id)
CountHigher(id) == Cardinality({i \in DOMAIN threadIds : i > id})

MinOf(S) == CHOOSE m \in S : \A x \in S : m <= x

(***************************************************************************)
(* HandleOutFile                                                           *)
(***************************************************************************)
\* a variant of HandleOutFileClose: nothing is written at close
HandleOutFileCloseNoEnd(mode, cmem, cidx) ==
    [filePtr |-> cmem, fileIdx |-> cidx]

\* a variant of HandleOutFileClose: "END\n" is written whatever the mode
HandleOutFileCloseAnyMode(mode, cmem, cidx) ==
    WriteToFile(cmem, cidx, EndText)

\* HandleOutFile(true): "END\n" is written in the writing modes
HandleOutFileClose(mode, cmem, cidx) ==
    IF Writing(mode) THEN WriteToFile(cmem, cidx, EndText)
    ELSE [filePtr |-> cmem, fileIdx |-> cidx]

\* HandleOutFile(false) once the read loop has returned r: _schedDone from
\* the END line, then the file is cut to one cleared page (RANDOM, EXPLORE)
HandleOutFileRead(mode, omem, oldSched, oldDone, r) ==
    IF mode \in {"RUN_EXPLORE", "RUN_PRESET"}
    THEN [sched |-> r.sched, schedDone |-> ScanEnd(omem, r.fileIdx),
          filePtr |-> IF Writing(mode) THEN Zeros(PAGE) ELSE omem,
          fileIdx |-> 0]
    ELSE [sched |-> oldSched, schedDone |-> oldDone,
          filePtr |-> IF Writing(mode) THEN Zeros(PAGE) ELSE omem,
          fileIdx |-> 0]

\* HandleOutFile(false): the last sequence is read (EXPLORE, PRESET), then
\* the file is prepared for writing
HandleOutFileOpen(mode, omem, oldSched, oldDone) ==
    HandleOutFileRead(mode, omem, oldSched, oldDone, ReadSched(omem, 0, <<>>))

(***************************************************************************)
(* Reset                                                                   *)
(***************************************************************************)
\* a variant of NextBranch: higher is decremented but the threadId of the
\* entry is left as it was
RECURSIVE NextBranchKeepId(_)
NextBranchKeepId(s) ==
    IF s = <<>> THEN <<>>
    ELSE IF s[Len(s)].higher = 0
    THEN NextBranchKeepId(SubSeq(s, 1, Len(s) - 1))
    ELSE [s EXCEPT ![Len(s)] = [threadId |-> @.threadId,
                                available |-> @.available,
                                higher |-> @.higher - 1]]

\* a variant of NextBranch: one entry with higher == 0 is popped and the
\* walk stops (a break in the place of the continue)
NextBranchOnePop(s) ==
    IF s = <<>> THEN <<>>
    ELSE IF s[Len(s)].higher = 0 THEN SubSeq(s, 1, Len(s) - 1)
    ELSE [s EXCEPT ![Len(s)] = [threadId |-> @.threadId + 1,
                                available |-> @.available,
                                higher |-> @.higher - 1]]

\* the tail walk of Reset in RUN_EXPLORE: entries with higher == 0 are
\* popped, the first other entry gets threadId + 1 and higher - 1
RECURSIVE NextBranch(_)
NextBranch(s) ==
    IF s = <<>> THEN <<>>
    ELSE IF s[Len(s)].higher = 0 THEN NextBranch(SubSeq(s, 1, Len(s) - 1))
    ELSE [s EXCEPT ![Len(s)] = [threadId |-> @.threadId + 1,
                                available |-> @.available,
                                higher |-> @.higher - 1]]

\* what the last state of RUN_EXPLORE does: GOV_ERR, std::abort(), and a
\* "return false" that is never reached
ExploreLastState == [abort |-> "explore_last_state", ret |-> "none"]

\* a variant of ResetSwitch: RUN_PRESET leaves _schedIdx where the run left
\* it (without the "_schedIdx = 0" before its return)
ResetSwitchKeepCursor(mode, seq, cursor, done) ==
    CASE mode = "RUN_RANDOM" ->
            [sched |-> <<>>, schedIdx |-> 0, ret |-> "true", abort |-> "no"]
      [] mode = "RUN_EXPLORE" ->
            IF ~done
            THEN [sched |-> seq, schedIdx |-> 0, ret |-> "true", abort |-> "no"]
            ELSE IF NextBranch(seq) = <<>>
            THEN [sched |-> <<>>, schedIdx |-> 0] @@ ExploreLastState
            ELSE [sched |-> NextBranch(seq), schedIdx |-> 0, ret |-> "true",
                  abort |-> "no"]
      [] mode = "RUN_PRESET" ->
            [sched |-> seq, schedIdx |-> cursor,
             ret |-> IF cursor = 0 THEN "true" ELSE "false", abort |-> "no"]

\* a variant of ResetSwitch: RUN_EXPLORE drops the sequence of a run that
\* did not reach its end, and starts the search over
ResetSwitchDropIncomplete(mode, seq, cursor, done) ==
    CASE mode = "RUN_RANDOM" ->
            [sched |-> <<>>, schedIdx |-> 0, ret |-> "true", abort |-> "no"]
      [] mode = "RUN_EXPLORE" ->
            IF ~done
            THEN [sched |-> <<>>, schedIdx |-> 0, ret |-> "true",
                  abort |-> "no"]
            ELSE IF NextBranch(seq) = <<>>
            THEN [sched |-> <<>>, schedIdx |-> 0] @@ ExploreLastState
            ELSE [sched |-> NextBranch(seq), schedIdx |-> 0, ret |-> "true",
                  abort |-> "no"]
      [] mode = "RUN_PRESET" ->
            [sched |-> seq, schedIdx |-> 0,
             ret |-> IF cursor = 0 THEN "true" ELSE "false", abort |-> "no"]

\* the switch of Reset, on the sequence HandleOutFile(false) left
ResetSwitch(mode, seq, cursor, done) ==
    CASE mode = "RUN_RANDOM" ->
            [sched |-> <<>>, schedIdx |-> 0, ret |-> "true", abort |-> "no"]
      [] mode = "RUN_EXPLORE" ->
            IF ~done
            THEN [sched |-> seq, schedIdx |-> 0, ret |-> "true", abort |-> "no"]
            ELSE IF NextBranch(seq) = <<>>
            THEN [sched |-> <<>>, schedIdx |-> 0] @@ ExploreLastState
            ELSE [sched |-> NextBranch(seq), schedIdx |-> 0, ret |-> "true",
                  abort |-> "no"]
      [] mode = "RUN_PRESET" ->
            [sched |-> seq, schedIdx |-> 0,
             ret |-> IF cursor = 0 THEN "true" ELSE "false", abort |-> "no"]

\* "if no scheduling has been done, ignore call"
ResetIgnored(force) == ~force /\ schedIdx = 0

\* the fields Reset leaves: the file and _schedDone of HandleOutFile(false),
\* the sequence, cursor and result of the switch
ResetFields(opened, sw) ==
    [filePtr |-> opened.filePtr, fileIdx |-> opened.fileIdx,
     schedDone |-> opened.schedDone, sched |-> sw.sched,
     schedIdx |-> sw.schedIdx, ret |-> sw.ret, abort |-> sw.abort]

ResetOpened(mode, i0, opened) ==
    ResetFields(opened,
                ResetSwitch(mode, opened.sched, i0, opened.schedDone))

\* the state a Reset that is not ignored leaves, from the fields given:
\* HandleOutFile(true) if _schedIdx > 0, HandleOutFile(false), the switch
ResetResult(mode, m0, f0, s0, i0, d0) ==
    ResetOpened(mode, i0,
        HandleOutFileOpen(mode,
            IF i0 > 0 THEN HandleOutFileClose(mode, m0, f0).filePtr ELSE m0,
            s0, d0))

Reset(force) ==
    /\ Running /\ mutex = NoThread
    /\ hist' = <<>>
    /\ IF ResetIgnored(force)
       THEN /\ ret' = "true"
            /\ UNCHANGED <<fileVars, seqVars, procState>>
       ELSE \E r \in {ResetResult(runMode, filePtr, fileIdx, sched, schedIdx,
                                  schedDone)} :
                /\ filePtr' = r.filePtr
                /\ fileIdx' = r.fileIdx
                /\ sched' = r.sched
                /\ schedIdx' = r.schedIdx
                /\ schedDone' = r.schedDone
                /\ ret' = r.ret
                /\ procState' = IF r.abort = "no" THEN procState ELSE r.abort
    /\ UNCHANGED <<runMode, procs, recorded, recordedMode, regVars,
                   activeThreadId, mutex, pc, ghostVars>>

(***************************************************************************)
(* Prepare, Subscribe                                                      *)
(***************************************************************************)
Prepare(numThreads) ==
    /\ Running /\ mutex = NoThread
    /\ threadsToSub' = numThreads
    /\ UNCHANGED <<threads, threadIds, fileVars, seqVars, procVars,
                   activeThreadId, mutex, pc, ret, hist, ghostVars>>

\* a variant of SubscribeRefusal: a threadId that is in use is not refused
SubscribeRefusalIdReused(t, threadId) ==
    IF Subscribed(t) THEN "sub_already"
    ELSE IF threadsToSub = 0 THEN "sub_unexpected"
    ELSE "no"

\* a variant of SubscribeRefusal: a thread that was not expected is not
\* refused
SubscribeRefusalAnyCount(t, threadId) ==
    IF Subscribed(t) THEN "sub_already"
    ELSE IF \E s \in DOMAIN threads : threads[s].threadId = threadId
    THEN "sub_id_used"
    ELSE "no"

\* the three refusals of Subscribe, each a GOV_ERR and std::abort()
SubscribeRefusal(t, threadId) ==
    IF Subscribed(t) THEN "sub_already"
    ELSE IF threadsToSub = 0 THEN "sub_unexpected"
    ELSE IF \E s \in DOMAIN threads : threads[s].threadId = threadId
    THEN "sub_id_used"
    ELSE "no"

Subscribe(t, threadId) ==
    /\ Running /\ mutex = NoThread /\ pc[t] = "run"
    /\ IF SubscribeRefusal(t, threadId) # "no"
       THEN /\ procState' = SubscribeRefusal(t, threadId)
            /\ UNCHANGED regVars
       ELSE /\ threads' = (t :> [threadId |-> threadId,
                                 isInControlPoint |-> FALSE]) @@ threads
            /\ threadIds' = (threadId :> t) @@ threadIds
            /\ threadsToSub' = threadsToSub - 1
            /\ UNCHANGED procState
    /\ UNCHANGED <<runMode, procs, recorded, recordedMode, fileVars, seqVars,
                   activeThreadId, mutex, pc, ret, hist, ghostVars>>

(***************************************************************************)
(* ChooseThread                                                            *)
(***************************************************************************)
\* the outcome of a choice: the SchedPoint, the new sequence and cursor
Chosen(sp, newSched, newIdx) ==
    [abort |-> "no", sp |-> sp, sched |-> newSched, schedIdx |-> newIdx]

\* a variant of RandomPoint: higher is recorded as RUN_EXPLORE records it
\* for its first choice, available - 1
RandomPointFirst(pick) ==
    [threadId |-> pick, available |-> Cardinality(DOMAIN threadIds),
     higher |-> Cardinality(DOMAIN threadIds) - 1]

\* RUN_RANDOM: the front of the shuffled ids is `pick`
RandomPoint(pick) ==
    [threadId |-> pick, available |-> Cardinality(DOMAIN threadIds),
     higher |-> CountHigher(pick)]

ChooseRandom(pick) ==
    Chosen(RandomPoint(pick), Append(sched, RandomPoint(pick)), Len(sched))

\* a variant of ExploreRepair: the recorded threadId is used as it is
ExploreRepairNone(threadId) == threadId

\* "use first threadId that is >= indicated threadId"
ExploreRepair(threadId) ==
    IF \E i \in DOMAIN threadIds : i >= threadId
    THEN MinOf({i \in DOMAIN threadIds : i >= threadId})
    ELSE threadId

\* a variant of FreshPoint: the first thread of _threads, in the order of
\* the thread identities, is chosen
FreshPointByThread ==
    [threadId |-> threads[MinOf(DOMAIN threads)].threadId,
     available |-> Cardinality(DOMAIN threadIds),
     higher |-> Cardinality(DOMAIN threadIds) - 1]

\* a variant of FreshPoint: higher counts every subscribed thread
FreshPointAllHigher ==
    [threadId |-> MinOf(DOMAIN threadIds),
     available |-> Cardinality(DOMAIN threadIds),
     higher |-> Cardinality(DOMAIN threadIds)]

\* "if there's no info in schedule, use first available threadId"
FreshPoint ==
    [threadId |-> MinOf(DOMAIN threadIds),
     available |-> Cardinality(DOMAIN threadIds),
     higher |-> Cardinality(DOMAIN threadIds) - 1]

\* a variant of ExplorePoint: every point of the sequence is repaired
ExplorePointAlwaysRepair(s, idx) ==
    [s[idx + 1] EXCEPT !.threadId = ExploreRepair(@)]

\* RUN_EXPLORE at cursor idx of the sequence s (with the fresh point
\* pushed, if there was none): the last known point is repaired
ExplorePoint(s, idx) ==
    IF idx = Len(s) - 1
    THEN [s[idx + 1] EXCEPT !.threadId = ExploreRepair(@)]
    ELSE s[idx + 1]

\* a variant of ChooseExplore: the fresh point is chosen but not pushed
ChooseExploreNoPush ==
    IF schedIdx > Len(sched)
    THEN [abort |-> "assert_idx", sp |-> FreshPoint, sched |-> sched,
          schedIdx |-> schedIdx + 1]
    ELSE IF schedIdx = Len(sched)
    THEN Chosen(FreshPoint, sched, schedIdx + 1)
    ELSE Chosen(ExplorePoint(sched, schedIdx), sched, schedIdx + 1)

\* RUN_EXPLORE: "size_t idx = _schedIdx++", a fresh point is pushed when the
\* sequence has none at idx
ChooseExplore ==
    IF schedIdx > Len(sched)
    THEN [abort |-> "assert_idx", sp |-> FreshPoint, sched |-> sched,
          schedIdx |-> schedIdx + 1]
    ELSE IF schedIdx = Len(sched)
    THEN Chosen(ExplorePoint(Append(sched, FreshPoint), schedIdx),
                Append(sched, FreshPoint), schedIdx + 1)
    ELSE Chosen(ExplorePoint(sched, schedIdx), sched, schedIdx + 1)

\* a variant of PresetMismatch: the lenient fall-back of src/governor.cpp,
\* which goes on with a choice of RUN_RANDOM
PresetFallback(reason, pick) ==
    Chosen(RandomPoint(MinOf(DOMAIN threadIds)),
           Append(sched, RandomPoint(MinOf(DOMAIN threadIds))), Len(sched))

\* what RUN_PRESET does when the recording does not fit the run: GOV_ERR
\* and std::abort(); the "return ChooseThread(RUN_RANDOM)" is never reached
PresetMismatch(reason, pick) ==
    [abort |-> reason, sp |-> [threadId |-> 0, available |-> 0, higher |-> 0],
     sched |-> sched, schedIdx |-> schedIdx + 1]

\* the checks of RUN_PRESET on the recorded point sp
PresetCheck(sp, pick) ==
    IF sp.threadId \notin DOMAIN threadIds
    THEN PresetMismatch("preset_invalid_id", pick)
    ELSE IF sp.available # Cardinality(DOMAIN threadIds)
    THEN PresetMismatch("preset_available", pick)
    ELSE IF sp.higher # CountHigher(sp.threadId)
    THEN PresetMismatch("preset_higher", pick)
    ELSE Chosen(sp, sched, schedIdx + 1)

ChoosePreset(pick) ==
    IF schedIdx >= Len(sched) THEN PresetMismatch("preset_no_sched", pick)
    ELSE PresetCheck(sched[schedIdx + 1], pick)

\* the values `pick` ranges over: the shuffle's outcomes in RUN_RANDOM
Picks == IF runMode = "RUN_RANDOM" THEN DOMAIN threadIds ELSE {0}

\* the branches of ChooseThread on the mode
ChooseByMode(mode, pick) ==
    CASE mode = "RUN_RANDOM" -> ChooseRandom(pick)
      [] mode = "RUN_EXPLORE" -> ChooseExplore
      [] mode = "RUN_PRESET" -> ChoosePreset(pick)

\* a variant of WriteSchedPoint: a point replayed by RUN_EXPLORE is written
\* as the sequence holds it, without the repair of its threadId
WriteSchedPointStored(sp) ==
    IF Writing(runMode)
    THEN WriteToFile(filePtr, fileIdx,
                     FormatSchedPoint(IF runMode = "RUN_EXPLORE"
                                         /\ schedIdx < Len(sched)
                                      THEN sched[schedIdx + 1] ELSE sp))
    ELSE [filePtr |-> filePtr, fileIdx |-> fileIdx]

\* "write sp to file", in the writing modes
WriteSchedPoint(sp) ==
    IF Writing(runMode)
    THEN WriteToFile(filePtr, fileIdx, FormatSchedPoint(sp))
    ELSE [filePtr |-> filePtr, fileIdx |-> fileIdx]

\* the end of ChooseThread for the choice c: the thread is looked up
\* (assert(itr != _threadIds.end())) and the record is written
LookupAndWrite(c) ==
    IF c.abort # "no"
    THEN c @@ [id |-> NoThread, filePtr |-> filePtr, fileIdx |-> fileIdx]
    ELSE IF c.sp.threadId \notin DOMAIN threadIds
    THEN [abort |-> "assert_lookup", id |-> NoThread, filePtr |-> filePtr,
          fileIdx |-> fileIdx] @@ c
    ELSE c @@ [id |-> threadIds[c.sp.threadId]] @@ WriteSchedPoint(c.sp)

\* ChooseThread(mode): the chosen SchedPoint, the new sequence and cursor,
\* the thread looked up for it, and the file after the record is written
ChooseThread(mode, pick) == LookupAndWrite(ChooseByMode(mode, pick))

(***************************************************************************)
(* UpdateActiveThread                                                      *)
(***************************************************************************)
\* a variant of ClearedGate: the caller's own entry in the gate is kept
KeptGate(t) == activeThreadId

\* "if (_activeThreadId.load() == id) _activeThreadId.store(thread::id())"
ClearedGate(t) == IF activeThreadId = t THEN NoThread ELSE activeThreadId

\* a variant of CanChoose: one thread in a control point is enough
CanChooseSomeWaiting ==
    /\ threadsToSub = 0
    /\ \E s \in DOMAIN threads : threads[s].isInControlPoint

\* a variant of CanChoose: without the return on _threadsToSub
CanChooseBeforeAllSubscribed ==
    /\ \A s \in DOMAIN threads : threads[s].isInControlPoint
    /\ DOMAIN threads # {}

\* the three early returns of UpdateActiveThread
CanChoose ==
    /\ threadsToSub = 0
    /\ \A s \in DOMAIN threads : threads[s].isInControlPoint
    /\ DOMAIN threads # {}

\* the second step of ControlPoint and Unsubscribe: UpdateActiveThread and
\* the release of the mutex
UpdateActiveThread(t) ==
    /\ Running /\ mutex = t /\ pc[t] \in {"cp_locked", "unsub_locked"}
    /\ IF ~CanChoose
       THEN /\ activeThreadId' = ClearedGate(t)
            /\ mutex' = NoThread
            /\ pc' = [pc EXCEPT ![t] = IF @ = "cp_locked" THEN "spin" ELSE "run"]
            /\ UNCHANGED <<threads, fileVars, sched, schedIdx, procState,
                           hist, selected>>
       ELSE \E pick \in Picks : \E c \in {ChooseThread(runMode, pick)} :
                IF c.abort # "no"
                THEN /\ procState' = c.abort
                     /\ activeThreadId' = ClearedGate(t)
                     /\ sched' = c.sched
                     /\ schedIdx' = c.schedIdx
                     /\ UNCHANGED <<threads, fileVars, mutex, pc, hist,
                                    selected>>
                ELSE /\ threads' = [threads EXCEPT
                                      ![c.id].isInControlPoint = FALSE]
                     /\ activeThreadId' = c.id
                     /\ sched' = c.sched
                     /\ schedIdx' = c.schedIdx
                     /\ filePtr' = c.filePtr
                     /\ fileIdx' = c.fileIdx
                     /\ mutex' = NoThread
                     /\ pc' = [pc EXCEPT
                                 ![t] = IF @ = "cp_locked" THEN "spin" ELSE "run"]
                     /\ hist' = Append(hist, c.sp.threadId)
                     /\ selected' = [selected EXCEPT ![c.id] = TRUE]
                     /\ UNCHANGED procState
    /\ UNCHANGED <<runMode, procs, recorded, recordedMode, threadsToSub,
                   threadIds, schedDone, ret, released>>

(***************************************************************************)
(* ControlPoint, Unsubscribe                                               *)
(***************************************************************************)
\* first step of ControlPoint: the mutex is taken; an unsubscribed caller
\* returns, a subscribed one is marked as being in a control point
ControlPointEnter(t) ==
    /\ Running /\ mutex = NoThread /\ pc[t] = "run"
    /\ IF ~Subscribed(t)
       THEN UNCHANGED <<threads, mutex, pc, ghostVars>>
       ELSE /\ threads' = [threads EXCEPT ![t].isInControlPoint = TRUE]
            /\ mutex' = t
            /\ pc' = [pc EXCEPT ![t] = "cp_locked"]
            /\ released' = [released EXCEPT ![t] = FALSE]
            /\ selected' = [selected EXCEPT ![t] = FALSE]
    /\ UNCHANGED <<threadsToSub, threadIds, fileVars, seqVars, procVars,
                   activeThreadId, ret, hist>>

\* a variant of SpinExit: the loop ends as soon as the gate names any thread
SpinExitAny(t) ==
    /\ Running /\ pc[t] = "spin"
    /\ activeThreadId # NoThread
    /\ pc' = [pc EXCEPT ![t] = "run"]
    /\ released' = [released EXCEPT ![t] = TRUE]
    /\ UNCHANGED <<regVars, fileVars, seqVars, procVars, activeThreadId,
                   mutex, ret, hist, selected>>

\* the spin loop of ControlPoint: "while (_activeThreadId.load() != id)
\* yield()" ends when the gate names the caller
SpinExit(t) ==
    /\ Running /\ pc[t] = "spin"
    /\ activeThreadId = t
    /\ pc' = [pc EXCEPT ![t] = "run"]
    /\ released' = [released EXCEPT ![t] = TRUE]
    /\ UNCHANGED <<regVars, fileVars, seqVars, procVars, activeThreadId,
                   mutex, ret, hist, selected>>

\* a variant of UnsubscribeEnter: the caller is erased and returns, and
\* UpdateActiveThread is not called
UnsubscribeNoUpdate(t) ==
    /\ Running /\ mutex = NoThread /\ pc[t] = "run"
    /\ IF ~Subscribed(t)
       THEN UNCHANGED <<threads, threadIds, ghostVars>>
       ELSE /\ threads' = Without(threads, t)
            /\ threadIds' = Without(threadIds, threads[t].threadId)
            /\ released' = [released EXCEPT ![t] = FALSE]
            /\ UNCHANGED selected
    /\ UNCHANGED <<threadsToSub, fileVars, seqVars, procVars, activeThreadId,
                   mutex, pc, ret, hist>>

\* a variant of UnsubscribeEnter: without the return for a caller that is
\* not subscribed, which goes on to UpdateActiveThread
UnsubscribeEnterAlways(t) ==
    /\ Running /\ mutex = NoThread /\ pc[t] = "run"
    /\ IF ~Subscribed(t)
       THEN UNCHANGED <<threads, threadIds, ghostVars>>
       ELSE /\ threads' = Without(threads, t)
            /\ threadIds' = Without(threadIds, threads[t].threadId)
            /\ released' = [released EXCEPT ![t] = FALSE]
            /\ UNCHANGED selected
    /\ mutex' = t
    /\ pc' = [pc EXCEPT ![t] = "unsub_locked"]
    /\ UNCHANGED <<threadsToSub, fileVars, seqVars, procVars, activeThreadId,
                   ret, hist>>

\* first step of Unsubscribe: the mutex is taken; a subscribed caller is
\* erased from both maps
UnsubscribeEnter(t) ==
    /\ Running /\ mutex = NoThread /\ pc[t] = "run"
    /\ IF ~Subscribed(t)
       THEN UNCHANGED <<threads, threadIds, mutex, pc, ghostVars>>
       ELSE /\ threads' = Without(threads, t)
            /\ threadIds' = Without(threadIds, threads[t].threadId)
            /\ mutex' = t
            /\ pc' = [pc EXCEPT ![t] = "unsub_locked"]
            /\ released' = [released EXCEPT ![t] = FALSE]
            /\ UNCHANGED selected
    /\ UNCHANGED <<threadsToSub, fileVars, seqVars, procVars, activeThreadId,
                   ret, hist>>

(***************************************************************************)
(* The process: constructor, destructor, crash                             *)
(***************************************************************************)
\* the fields the constructor leaves, r being the result of its Reset(true)
Constructed(m, r) ==
    [runMode |-> m, filePtr |-> r.filePtr, fileIdx |-> r.fileIdx,
     sched |-> r.sched, schedIdx |-> r.schedIdx, schedDone |-> r.schedDone,
     ret |-> r.ret,
     procState |-> IF r.abort = "no" THEN "running" ELSE r.abort]

\* "get size of file, in multiples of page", at least one page
MappedSize(n) ==
    IF n = 0 THEN PAGE
    ELSE (n \div PAGE) * PAGE + (IF n % PAGE # 0 THEN PAGE ELSE 0)

\* Governor::Governor() on the file `disk` in mode m: the fields' defaults,
\* the file mapped in whole pages, then Reset(true)
Construct(m, disk) ==
    Constructed(m,
        ResetResult(m, MapFileToMem(disk, MappedSize(Len(disk))),
                    0, <<>>, 0, FALSE))

\* Governor::~Governor() at process exit: HandleOutFile(true)
Exit ==
    /\ Running /\ mutex = NoThread
    /\ procState' = "exited"
    /\ \E f \in {HandleOutFileClose(runMode, filePtr, fileIdx)} :
           filePtr' = f.filePtr /\ fileIdx' = f.fileIdx
    /\ UNCHANGED <<runMode, procs, recorded, recordedMode, regVars, seqVars,
                   activeThreadId, mutex, pc, ret, hist, ghostVars>>

\* the program under test dies (an assertion of its own, a signal): the
\* mapping keeps what was written, no END is added
Crash ==
    /\ Running
    /\ procState' = "crashed"
    /\ UNCHANGED <<runMode, procs, recorded, recordedMode, regVars, seqVars,
                   fileVars, activeThreadId, mutex, pc, ret, hist, ghostVars>>

\* the next process on the same file, in mode m
Start(m) ==
    /\ ~Running /\ procs < MaxProcs
    /\ procs' = procs + 1
    /\ recorded' = IF /\ procState = "exited" /\ resets = 0
                      /\ \/ runCount = 1
                         \/ runMode = "RUN_EXPLORE" /\ runCount > 1
                   THEN hist ELSE <<-1>>
    /\ recordedMode' = runMode
    /\ \E g \in {Construct(m, filePtr)} :
           /\ runMode' = g.runMode
           /\ filePtr' = g.filePtr
           /\ fileIdx' = g.fileIdx
           /\ sched' = g.sched
           /\ schedIdx' = g.schedIdx
           /\ schedDone' = g.schedDone
           /\ ret' = g.ret
           /\ procState' = g.procState
    /\ threadsToSub' = 0
    /\ threads' = <<>>
    /\ threadIds' = <<>>
    /\ activeThreadId' = NoThread
    /\ mutex' = NoThread
    /\ pc' = [t \in Threads |-> "run"]
    /\ hist' = <<>>
    /\ released' = [t \in Threads |-> FALSE]
    /\ selected' = [t \in Threads |-> FALSE]


(***************************************************************************)
(* The file an earlier process leaves.                                     *)
(***************************************************************************)
\* the records of seq from the k-th on, each written by the write loop of
\* ChooseThread to the file f (its bytes and _fileIdx)
RECURSIVE WriteAll(_, _, _)
WriteAll(f, seq, k) ==
    IF k > Len(seq) THEN f
    ELSE WriteAll(WriteToFile(f.filePtr, f.fileIdx, FormatSchedPoint(seq[k])),
                  seq, k + 1)

\* gov.data after a RUN_RANDOM process decided [threadId 1 of 2, none
\* higher] and was killed: one record, no END
KilledRun == <<[threadId |-> 1, available |-> 2, higher |-> 0]>>

\* the files a process may find: none (open creates it empty), or the one
\* the killed run left
InitialFiles ==
    {<<>>, WriteAll([filePtr |-> Zeros(PAGE), fileIdx |-> 0], KilledRun, 1).filePtr}

(***************************************************************************)
(* Any use of the API by one process: every thread that is not spinning    *)
(* may call any operation with any argument.                               *)
(***************************************************************************)
\* the model enters no operation that may decide once the sequence has
\* reached MaxSched entries
Budget ==
    \/ runMode = "RUN_PRESET"
    \/ runMode = "RUN_EXPLORE" /\ schedIdx < MaxSched
    \/ runMode = "RUN_RANDOM" /\ Len(sched) < MaxSched

\* the rest of a constructed Governor, and the threads of a new process
FreshProcess ==
    /\ threadsToSub = 0
    /\ threads = <<>>
    /\ threadIds = <<>>
    /\ activeThreadId = NoThread
    /\ mutex = NoThread
    /\ pc = [t \in Threads |-> "run"]
    /\ hist = <<>>
    /\ released = [t \in Threads |-> FALSE]
    /\ selected = [t \in Threads |-> FALSE]

\* the first process, in mode m on the file disk
FirstProcess(m, disk) ==
    /\ procs = 1
    /\ recorded = <<-1>>
    /\ recordedMode = "none"
    /\ \E g \in {Construct(m, disk)} :
            /\ runMode = g.runMode
            /\ filePtr = g.filePtr
            /\ fileIdx = g.fileIdx
            /\ sched = g.sched
            /\ schedIdx = g.schedIdx
            /\ schedDone = g.schedDone
            /\ ret = g.ret
            /\ procState = g.procState
    /\ FreshProcess

NoRuns ==
    /\ runs = {}
    /\ lastRun = <<-1>>
    /\ prevRun = <<-2>>
    /\ runCount = 0
    /\ resets = 0

NoProgram ==
    /\ dpc = "none"
    /\ prog = [t \in Threads |-> "none"]
    /\ remaining = [t \in Threads |-> 0]
    /\ cps = [t \in Threads |-> 0]
    /\ idOf = [t \in Threads |-> 0]
    /\ NoRuns
    /\ input = <<>>

Init ==
    /\ \E m \in Modes, disk \in InitialFiles : FirstProcess(m, disk)
    /\ NoProgram

ApiPrepare == \E n \in 0..NumThreads : Prepare(n) /\ UNCHANGED progVars

ApiSubscribe ==
    \E t \in Threads, i \in Ids : Subscribe(t, i) /\ UNCHANGED progVars

ApiControlPoint ==
    \E t \in Threads : Budget /\ ControlPointEnter(t) /\ UNCHANGED progVars

ApiUnsubscribe ==
    \E t \in Threads : Budget /\ UnsubscribeEnter(t) /\ UNCHANGED progVars

ApiUpdateActiveThread ==
    \E t \in Threads : UpdateActiveThread(t) /\ UNCHANGED progVars

ApiSpinExit == \E t \in Threads : SpinExit(t) /\ UNCHANGED progVars

ApiReset == \E force \in BOOLEAN : Reset(force) /\ UNCHANGED progVars

ApiExit == Exit /\ UNCHANGED progVars

ApiCrash == Crash /\ UNCHANGED progVars

Next ==
    \/ ApiPrepare
    \/ ApiSubscribe
    \/ ApiControlPoint
    \/ ApiUnsubscribe
    \/ ApiUpdateActiveThread
    \/ ApiSpinExit
    \/ ApiReset
    \/ ApiExit
    \/ ApiCrash

Spec == Init /\ [][Next]_vars

(***************************************************************************)
(* A deterministic program under test: the driver calls Prepare and starts *)
(* the threads; each thread subscribes with its threadId, calls            *)
(* ControlPoint cps[t] times and unsubscribes; the driver joins them and   *)
(* then calls Reset, starts the next run or lets the process exit.  The    *)
(* next process runs the same program on the file the last one left.       *)
(***************************************************************************)
\* the threads the program starts
Part == {t \in Threads : cps[t] > 0}

\* threads are interchangeable: they get their ids in increasing order
IdAssignments ==
    {f \in [Threads -> Ids] : \A t, u \in Threads : t < u => f[t] < f[u]}

Programs == {c \in [Threads -> 0..MaxCps] : \E t \in Threads : c[t] > 0}

ProgInit ==
    /\ \E m \in Modes : FirstProcess(m, <<>>)
    /\ cps \in Programs
    /\ idOf \in IdAssignments
    /\ dpc = "prepare"
    /\ prog = [t \in Threads |-> "none"]
    /\ remaining = [t \in Threads |-> 0]
    /\ NoRuns
    /\ input = <<>>

PPrepare ==
    /\ dpc = "prepare"
    /\ Prepare(Cardinality(Part))
    /\ dpc' = "running"
    /\ prog' = [t \in Threads |-> IF cps[t] > 0 THEN "sub" ELSE "none"]
    /\ remaining' = cps
    /\ UNCHANGED <<cps, idOf, runVars, resets, input>>

PSubscribe(t) ==
    /\ dpc = "running" /\ prog[t] = "sub"
    /\ Subscribe(t, idOf[t])
    /\ prog' = [prog EXCEPT ![t] = "cp"]
    /\ UNCHANGED <<dpc, remaining, cps, idOf, runVars, resets, input>>

PControlPoint(t) ==
    /\ dpc = "running" /\ prog[t] = "cp" /\ remaining[t] > 0
    /\ ControlPointEnter(t)
    /\ remaining' = [remaining EXCEPT ![t] = @ - 1]
    /\ UNCHANGED <<dpc, prog, cps, idOf, runVars, resets, input>>

PUnsubscribe(t) ==
    /\ dpc = "running" /\ prog[t] = "cp" /\ remaining[t] = 0
    /\ UnsubscribeEnter(t)
    /\ prog' = [prog EXCEPT ![t] = "unsub"]
    /\ UNCHANGED <<dpc, remaining, cps, idOf, runVars, resets, input>>

PUpdateActiveThread(t) ==
    /\ UpdateActiveThread(t)
    /\ prog' = [prog EXCEPT
                  ![t] = IF pc[t] = "unsub_locked" /\ pc'[t] = "run"
                         THEN "done" ELSE @]
    /\ UNCHANGED <<dpc, remaining, cps, idOf, runVars, resets, input>>

PSpinExit(t) == SpinExit(t) /\ UNCHANGED progVars

ThreadStep(t) ==
    \/ PSubscribe(t)
    \/ PControlPoint(t)
    \/ PUnsubscribe(t)
    \/ PUpdateActiveThread(t)
    \/ PSpinExit(t)

\* the driver has joined every thread of the run
PJoin ==
    /\ dpc = "running" /\ Running
    /\ \A t \in Part : prog[t] = "done"
    /\ dpc' = "joined"
    /\ runCount' = runCount + 1
    /\ resets' = 0
    /\ IF runMode = "RUN_EXPLORE"
       THEN /\ runs' = runs \cup {hist}
            /\ lastRun' = hist
            /\ prevRun' = lastRun
       ELSE UNCHANGED <<runs, lastRun, prevRun>>
    /\ UNCHANGED <<runMode, filePtr, fileIdx, sched, schedIdx, schedDone,
                   threadsToSub, threads, threadIds, activeThreadId, mutex,
                   pc, procState, procs, ret, hist, released, selected,
                   recorded, recordedMode, prog, remaining, cps, idOf, input>>

PReset ==
    /\ dpc \in {"joined", "reset_done"} /\ resets < MaxResets
    /\ Reset(FALSE)
    /\ dpc' = "reset_done"
    /\ resets' = resets + 1
    /\ UNCHANGED <<prog, remaining, cps, idOf, runVars, input>>

\* "while (Reset()) run"
PRunAgain ==
    /\ dpc = "reset_done" /\ Running /\ ret = "true"
    /\ runMode = "RUN_EXPLORE" \/ runCount < MaxRuns
    /\ dpc' = "prepare"
    /\ UNCHANGED <<runMode, filePtr, fileIdx, sched, schedIdx, schedDone,
                   threadsToSub, threads, threadIds, activeThreadId, mutex,
                   pc, procState, procs, ret, hist, released, selected,
                   recorded, recordedMode, prog, remaining, cps, idOf, runVars,
                   resets, input>>

PExit ==
    /\ dpc \in {"joined", "reset_done"}
    /\ Exit
    /\ UNCHANGED progVars

PStart ==
    /\ \E m \in Modes : Start(m)
    /\ dpc' = "prepare"
    /\ prog' = [t \in Threads |-> "none"]
    /\ remaining' = [t \in Threads |-> 0]
    /\ runs' = {}
    /\ lastRun' = <<-1>>
    /\ prevRun' = <<-2>>
    /\ runCount' = 0
    /\ resets' = 0
    /\ UNCHANGED <<cps, idOf, input>>

PThread == \E t \in Threads : ThreadStep(t)

ProgNext ==
    \/ PPrepare
    \/ PThread
    \/ PJoin
    \/ PReset
    \/ PRunAgain
    \/ PExit
    \/ PStart

ProgSpec == ProgInit /\ [][ProgNext]_vars

(***************************************************************************)
(* The gate.                                                               *)
(***************************************************************************)
\* the gate is the sentinel, or names a subscribed thread that is not in a
\* control point
GateNamesRunner ==
    \/ activeThreadId = NoThread
    \/ /\ Subscribed(activeThreadId)
       /\ ~threads[activeThreadId].isInControlPoint

\* C1, as stated: in every reachable state, whoever reads the gate finds the
\* sentinel or a subscribed thread whose isInControlPoint is false
C1_GateAtAnyInstant == GateNamesRunner

\* C1, amended: in every reachable state the gate is the sentinel, or names
\* a subscribed thread whose isInControlPoint is false, or names the thread
\* that holds the mutex (inside ControlPoint or Unsubscribe, before
\* UpdateActiveThread has cleared it); so it holds as stated whenever no
\* thread is inside a critical section
C1_GateOutsideCriticalSection ==
    GateNamesRunner \/ (mutex # NoThread /\ activeThreadId = mutex)

\* a thread spins while the gate names another, released, thread and the
\* mutex is free
C1_Witness ==
    /\ mutex = NoThread
    /\ activeThreadId # NoThread
    /\ \E t \in Threads : pc[t] = "spin" /\ activeThreadId # t

\* C2: at most one thread is released at a time; a released thread was
\* selected by a decision taken after it entered its control point; and a
\* thread that is in a control point and was not selected cannot leave the
\* spin loop
C2_OneReleased ==
    /\ Cardinality({t \in Threads : released[t]}) <= 1
    /\ \A t \in Threads : released[t] => selected[t]
    /\ \A t \in Threads :
          (pc[t] = "spin" /\ Subscribed(t) /\ threads[t].isInControlPoint)
              => activeThreadId # t

\* one thread is released while another is suspended in its control point
C2_Witness ==
    \E t, u \in Threads :
        /\ released[t] /\ selected[t]
        /\ pc[u] = "spin" /\ Subscribed(u) /\ threads[u].isInControlPoint

(***************************************************************************)
(* RUN_PRESET against a recording that does not fit.                       *)
(***************************************************************************)
PresetAborts ==
    {"preset_no_sched", "preset_invalid_id", "preset_available",
     "preset_higher"}

\* the recording does not fit the registry at the cursor
Inconsistent ==
    \/ schedIdx >= Len(sched)
    \/ sched[schedIdx + 1].threadId \notin DOMAIN threadIds
    \/ sched[schedIdx + 1].available # Cardinality(DOMAIN threadIds)
    \/ sched[schedIdx + 1].higher
           # Cardinality({i \in DOMAIN threadIds :
                             i > sched[schedIdx + 1].threadId})

\* a step in which RUN_PRESET decides: the cursor moves on
PresetDecides == runMode = "RUN_PRESET" /\ schedIdx' = schedIdx + 1

\* C7: a RUN_PRESET decision against a recording that does not fit aborts
\* the process in that step, with the gate at the sentinel, no flag
\* cleared, no choice made and nothing appended to the sequence; and in the
\* aborted process no thread is released
C7_PresetMismatchAborts ==
    /\ [][(PresetDecides /\ Inconsistent) =>
             /\ procState' \in PresetAborts
             /\ activeThreadId' = NoThread
             /\ threads' = threads
             /\ sched' = sched
             /\ hist' = hist
             /\ released' = released]_vars
    /\ [](procState \in PresetAborts =>
             /\ activeThreadId = NoThread
             /\ \A t \in DOMAIN threads : threads[t].isInControlPoint
             /\ \A t \in Threads : ~released[t])

\* the recorded threadId is subscribed among as many threads as recorded,
\* but with another number of higher ids: the process has aborted while
\* two threads spin
C7_Witness ==
    /\ procState = "preset_higher"
    /\ \A t \in Threads : pc[t] \in {"spin", "cp_locked"}

(***************************************************************************)
(* The records of the file.                                                *)
(***************************************************************************)
\* the SchedPoint records gov.data holds
FileRecords == ReadSched(filePtr, 0, <<>>).sched

\* C9: in RUN_RANDOM and RUN_EXPLORE, after every public operation, the
\* file holds as many records as decisions were taken since the last Reset
\* call (or construction)
C9_RecordCount ==
    (Writing(runMode) /\ Running /\ mutex = NoThread)
        => Len(FileRecords) = Len(hist)

(***************************************************************************)
(* RUN_EXPLORE over the program under test.                                *)
(***************************************************************************)
RECURSIVE SumCps(_)
SumCps(S) ==
    IF S = {} THEN 0
    ELSE SumCps(S \ {MinOf(S)}) + cps[MinOf(S)]

\* the interleavings of the program's control points that keep each
\* thread's order: every thread is chosen once per control point
Interleavings ==
    {s \in [1..SumCps(Part) -> {idOf[t] : t \in Part}] :
        \A t \in Part :
            Cardinality({i \in 1..SumCps(Part) : s[i] = idOf[t]}) = cps[t]}

\* C4: in RUN_EXPLORE from an empty file, every run joined executes an
\* interleaving of the program, never the one of the run before it, and
\* when Reset finds the search exhausted the runs joined have executed
\* every interleaving
C4_ExploreCoverage ==
    (runMode = "RUN_EXPLORE" /\ procs = 1) =>
        /\ lastRun # prevRun
        /\ runs \subseteq Interleavings
        /\ procState = "explore_last_state" => runs = Interleavings

\* two threads with two control points each: six runs, then exhaustion
C4_Witness ==
    /\ runMode = "RUN_EXPLORE" /\ procs = 1
    /\ procState = "explore_last_state"
    /\ \A t \in Threads : cps[t] = 2
    /\ Cardinality(runs) = 6
    /\ runCount = 6

\* every record of the file has higher == 0
AllHigherZero == \A i \in DOMAIN FileRecords : FileRecords[i].higher = 0

\* C5: in RUN_EXPLORE the Reset that follows a completed run returns, the
\* process keeps running, and the result is false exactly when every entry
\* of the sequence has higher == 0
C5_ExhaustionReturnsFalse ==
    [][(runMode = "RUN_EXPLORE" /\ dpc = "joined" /\ dpc' = "reset_done") =>
          /\ procState' = "running"
          /\ ret' = "false" <=> AllHigherZero]_vars

(***************************************************************************)
(* RUN_PRESET over the program under test.                                 *)
(***************************************************************************)
\* s is a prefix of r
IsPrefix(s, r) == Len(s) <= Len(r) /\ SubSeq(r, 1, Len(s)) = s

\* the process replays the one run of a RUN_RANDOM process that exited
Replaying ==
    runMode = "RUN_PRESET" /\ recordedMode = "RUN_RANDOM" /\ recorded # <<-1>>

\* C6: a RUN_PRESET process on the file of a RUN_RANDOM run that exited
\* never aborts on a consistency check, chooses at decision k the threadId
\* the RUN_RANDOM run chose at decision k, and has made as many decisions
\* when its run is joined
C6_ReplayFidelity ==
    Replaying =>
        /\ procState \notin PresetAborts
        /\ IsPrefix(hist, recorded)
        /\ dpc = "joined" => hist = recorded

\* the replay of a run of four decisions has been joined
C6_Witness ==
    /\ Replaying
    /\ dpc = "joined"
    /\ hist = recorded
    /\ Len(hist) = 4

\* C8: in RUN_PRESET every Reset called after the recorded run has been
\* scheduled returns false
C8_PresetRunsOnce ==
    (runMode = "RUN_PRESET" /\ dpc = "reset_done" /\ runCount >= 1)
        => ret = "false"

(***************************************************************************)
(* Progress.                                                               *)
(***************************************************************************)
\* the threads take their steps
FairSpec == ProgSpec /\ \A t \in Threads : WF_vars(ThreadStep(t))

\* a run the progress claim is about: RUN_RANDOM, or RUN_EXPLORE from an
\* empty file
WellFormed ==
    \/ runMode = "RUN_RANDOM"
    \/ runMode = "RUN_EXPLORE" /\ procs = 1

\* C3: in a well-formed run every ControlPoint call returns, and the
\* registry becomes empty with every thread of the program done
C3_Progress ==
    /\ \A t \in Threads : \A n \in 1..MaxProcs :
          (WellFormed /\ procs = n /\ pc[t] \in {"cp_locked", "spin"})
              ~> (procs = n /\ pc[t] = "run")
    /\ \A n \in 1..MaxProcs :
          (WellFormed /\ procs = n /\ dpc = "running")
              ~> (procs = n /\ threads = <<>>
                    /\ \A t \in Part : prog[t] = "done")

\* a thread spins in its control point while the other runs
C3_Witness ==
    /\ WellFormed
    /\ \E t, u \in Threads :
          /\ pc[t] = "spin" /\ threads[t].isInControlPoint
          /\ released[u]

(***************************************************************************)
(* The round trip through gov.data: a writing process prints a sequence of *)
(* SchedPoints record by record and ends with or without END; a            *)
(* RUN_PRESET process then reads the file.                                 *)
(***************************************************************************)
FieldValues == {0, 1, MaxField}

SchedPoints ==
    [threadId : FieldValues, available : FieldValues, higher : FieldValues]

Inputs == UNION {[1..n -> SchedPoints] : n \in 0..MaxLen}

RtInit ==
    /\ FirstProcess("RUN_RANDOM", <<>>)
    /\ input \in Inputs
    /\ dpc = "rt_write"
    /\ prog = [t \in Threads |-> "none"]
    /\ remaining = [t \in Threads |-> 0]
    /\ cps = [t \in Threads |-> 0]
    /\ idOf = [t \in Threads |-> 0]
    /\ NoRuns

\* the next SchedPoint is pushed and written as ChooseThread does
RtWrite ==
    /\ dpc = "rt_write" /\ Len(sched) < Len(input)
    /\ sched' = Append(sched, input[Len(sched) + 1])
    /\ \E f \in {WriteSchedPoint(input[Len(sched) + 1])} :
           filePtr' = f.filePtr /\ fileIdx' = f.fileIdx
    /\ UNCHANGED <<schedIdx, schedDone, procVars, regVars, activeThreadId,
                   mutex, pc, ret, hist, ghostVars, progVars>>

\* the writing process exits: ~Governor() closes the file with END
RtClose ==
    /\ dpc = "rt_write" /\ Len(sched) = Len(input)
    /\ Exit
    /\ dpc' = "rt_closed"
    /\ UNCHANGED <<prog, remaining, cps, idOf, runVars, resets, input>>

\* the writing process is killed: no END
RtKill ==
    /\ dpc = "rt_write" /\ Len(sched) = Len(input)
    /\ Crash
    /\ dpc' = "rt_killed"
    /\ UNCHANGED <<prog, remaining, cps, idOf, runVars, resets, input>>

\* a RUN_PRESET process is constructed on the file
RtRead ==
    /\ dpc \in {"rt_closed", "rt_killed"}
    /\ Start("RUN_PRESET")
    /\ dpc' = IF dpc = "rt_closed" THEN "rt_read_closed" ELSE "rt_read_killed"
    /\ UNCHANGED <<prog, remaining, cps, idOf, runVars, resets, input>>

RtNext ==
    \/ RtWrite
    \/ RtClose
    \/ RtKill
    \/ RtRead

RtSpec == RtInit /\ [][RtNext]_vars

\* C10: the sequence read back from a file that was closed with END is the
\* sequence written, with schedDone true; from a file without END it is
\* the sequence written, with schedDone false
C10_RoundTrip ==
    /\ dpc = "rt_read_closed" => (sched = input /\ schedDone)
    /\ dpc = "rt_read_killed" => (sched = input /\ ~schedDone)

\* a sequence of MaxLen records with two-digit fields, which made the file
\* grow, has been read back after END
C10_Witness ==
    /\ dpc = "rt_read_closed"
    /\ Len(input) = MaxLen
    /\ \A i \in DOMAIN input : input[i].threadId = MaxField
    /\ Len(filePtr) > PAGE
    /\ sched = input /\ schedDone

(***************************************************************************)
(* Reset called again.                                                     *)
(***************************************************************************)
\* C11: a Reset(false) that follows a Reset(false), with no scheduling
\* decision between the two, returns true and leaves the sequence, the
\* cursor, schedDone, the file and the process as the first call left them
C11_IdempotentReset ==
    [][(dpc = "reset_done" /\ resets' = resets + 1) =>
          /\ ret' = "true"
          /\ UNCHANGED <<sched, schedIdx, schedDone, filePtr, fileIdx,
                         procState>>]_vars

\* the second Reset in a row after a run of RUN_EXPLORE, with the next
\* branch of the search in the sequence
C11_Witness ==
    /\ runMode = "RUN_EXPLORE" /\ dpc = "reset_done"
    /\ resets = 2 /\ runCount = 1
    /\ sched # <<>> /\ schedIdx = 0
    /\ ret = "true"

\* C12: whenever Reset can be called, schedIdx is 0 exactly when no
\* scheduling decision has been taken since the last Reset call (or
\* construction), so that Reset(false) returns early only when there is no
\* decision to flush
C12_CursorZeroIffNoDecision ==
    (Running /\ mutex = NoThread) => (schedIdx = 0 <=> hist = <<>>)

(***************************************************************************)
(* The registry.                                                           *)
(***************************************************************************)
\* C13: in every reachable state the two views of the registry have the
\* same size, every subscribed thread's threadId maps back to that thread,
\* every threadId of the second view belongs to the thread it names, and
\* no two subscribed threads share a threadId
C13_RegistryBijection ==
    /\ Cardinality(DOMAIN threads) = Cardinality(DOMAIN threadIds)
    /\ \A t \in DOMAIN threads :
          /\ threads[t].threadId \in DOMAIN threadIds
          /\ threadIds[threads[t].threadId] = t
    /\ \A i \in DOMAIN threadIds :
          /\ threadIds[i] \in DOMAIN threads
          /\ threads[threadIds[i]].threadId = i
    /\ \A t, u \in DOMAIN threads :
          threads[t].threadId = threads[u].threadId => t = u

\* a Subscribe with the threadId of the one subscribed thread was refused,
\* in a run that had made a decision
C13_Witness ==
    /\ procState = "sub_id_used"
    /\ Cardinality(DOMAIN threads) = 1
    /\ hist # <<>>

(***************************************************************************)
(* The SchedPoints of the sequence.                                        *)
(***************************************************************************)
\* a step in which a decision is taken
Decides == Len(hist') = Len(hist) + 1

\* the place in the sequence of the decision just taken: the back in
\* RUN_RANDOM, the entry before the cursor in RUN_EXPLORE
DecidedAt == IF runMode = "RUN_RANDOM" THEN Len(sched) ELSE schedIdx

\* C14: in RUN_RANDOM and RUN_EXPLORE, over the deterministic program under
\* test, the SchedPoint of every decision (new or replayed) has available
\* equal to the number of subscribed threads at the decision and
\* higher < available; and every SchedPoint of the sequence, those Reset
\* incremented included, has higher < available
C14_WellFormedPoints ==
    /\ [][(Writing(runMode) /\ Decides) =>
             /\ DecidedAt' \in DOMAIN sched'
             /\ sched'[DecidedAt'].available = Cardinality(DOMAIN threadIds)
             /\ sched'[DecidedAt'].higher < sched'[DecidedAt'].available]_vars
    /\ [](Writing(runMode) =>
             \A i \in DOMAIN sched : sched[i].higher < sched[i].available)

\* RUN_EXPLORE replays a point that Reset incremented, after a point it kept
C14_Witness ==
    /\ runMode = "RUN_EXPLORE" /\ runCount >= 1
    /\ Len(hist) = 2 /\ schedIdx = 2 /\ Len(sched) = 2
    /\ sched[2].higher = 0 /\ sched[2].available = 2
    /\ sched[1].higher = 1

(***************************************************************************)
(* The cursor.                                                             *)
(***************************************************************************)
\* C15, as stated: schedIdx <= |sequence| in every reachable state
C15_CursorBoundAlways == schedIdx <= Len(sched)

\* C15, amended: schedIdx <= |sequence| in every state of a process that
\* has not aborted, in all three modes; the one state with
\* schedIdx = |sequence| + 1 is the one in which RUN_PRESET, asked for a
\* decision beyond the end of the recording, has moved the cursor on and
\* aborted
C15_CursorBoundWhileAlive ==
    /\ procState # "preset_no_sched" => schedIdx <= Len(sched)
    /\ procState = "preset_no_sched" => schedIdx = Len(sched) + 1

\* Reset has read a sequence back that is shorter than the one the run
\* left in memory: RUN_EXPLORE popped the last point of two
C15_Witness ==
    /\ runMode = "RUN_EXPLORE" /\ Running
    /\ dpc = "reset_done" /\ ret = "true"
    /\ Len(lastRun) = 2 /\ Len(sched) = 1
    /\ schedIdx = 0

(***************************************************************************)
(* Subscribe.                                                              *)
(***************************************************************************)
SubscribeAborts == {"sub_already", "sub_unexpected", "sub_id_used"}

\* the cases in which Subscribe(threadId) by thread t is to be refused
MustRefuse(t, threadId) ==
    \/ Subscribed(t)
    \/ threadsToSub = 0
    \/ \E s \in DOMAIN threads : threads[s].threadId = threadId

\* C16: a Subscribe(threadId) by a thread that is subscribed, or with no
\* subscriber expected, or with a threadId in use, ends the process (the
\* strict build) and leaves the registry, the expected-subscriber count,
\* the flags, the gate, the sequence and the file unchanged; any other
\* Subscribe adds exactly the caller, with isInControlPoint = false, to both
\* views and takes one from the expected-subscriber count, which never
\* goes below zero
C16_SubscribeRefusal ==
    /\ [][\A t \in Threads, i \in Ids :
             Subscribe(t, i) =>
                 IF MustRefuse(t, i)
                 THEN /\ procState' \in SubscribeAborts
                      /\ UNCHANGED <<threads, threadIds, threadsToSub,
                                     activeThreadId, sched, schedIdx,
                                     schedDone, filePtr, fileIdx>>
                 ELSE /\ procState' = "running"
                      /\ DOMAIN threads' = DOMAIN threads \cup {t}
                      /\ threads'[t] =
                             [threadId |-> i, isInControlPoint |-> FALSE]
                      /\ \A s \in DOMAIN threads : threads'[s] = threads[s]
                      /\ DOMAIN threadIds' = DOMAIN threadIds \cup {i}
                      /\ threadIds'[i] = t
                      /\ \A j \in DOMAIN threadIds :
                             threadIds'[j] = threadIds[j]
                      /\ threadsToSub' = threadsToSub - 1
                      /\ UNCHANGED <<activeThreadId, sched, schedIdx,
                                     schedDone, filePtr, fileIdx>>]_vars
    /\ [](threadsToSub >= 0)

\* after Prepare(1) one thread has subscribed and the Subscribe of a second
\* was refused
C16_Witness ==
    /\ procState = "sub_unexpected"
    /\ Cardinality(DOMAIN threads) = 1
    /\ threadsToSub = 0
    /\ \A t \in DOMAIN threads : ~threads[t].isInControlPoint

(***************************************************************************)
(* Scheduling before every expected thread has subscribed.                 *)
(***************************************************************************)
\* a step of ControlPoint or Unsubscribe
ControlPointOrUnsubscribe ==
    \E t \in Threads :
        \/ ControlPointEnter(t)
        \/ UnsubscribeEnter(t)
        \/ UpdateActiveThread(t)

\* C17: while the expected-subscriber count is not zero, no step of
\* ControlPoint or Unsubscribe takes a decision: the sequence, the cursor
\* and the file stay as they are, no isInControlPoint flag is cleared, and
\* the gate is left alone or set to the sentinel
C17_NoDecisionBeforeAllSubscribed ==
    [][(threadsToSub # 0 /\ ControlPointOrUnsubscribe) =>
          /\ UNCHANGED <<sched, schedIdx, filePtr, fileIdx, hist>>
          /\ \A s \in DOMAIN threads \cap DOMAIN threads' :
                 threads[s].isInControlPoint => threads'[s].isInControlPoint
          /\ activeThreadId' \in {NoThread, activeThreadId}]_vars

\* every thread is subscribed and waits in its control point, one more
\* subscriber is expected, and nobody has been chosen
C17_Witness ==
    /\ threadsToSub # 0
    /\ \A t \in Threads :
          Subscribed(t) /\ threads[t].isInControlPoint /\ pc[t] = "spin"
    /\ activeThreadId = NoThread
    /\ hist = <<>>

(***************************************************************************)
(* Calls of a thread that is not subscribed.                               *)
(***************************************************************************)
\* C18: a ControlPoint or an Unsubscribe of a thread that is not subscribed
\* returns at once (the caller neither holds the mutex nor spins) and
\* leaves the registry, the flags, the expected-subscriber count, the
\* gate, the sequence, the cursor and the file unchanged; so a thread in a
\* control point is always a subscribed one
C18_UnsubscribedCallsAreNoOps ==
    /\ [][\A t \in Threads :
             (~Subscribed(t) /\ (ControlPointEnter(t) \/ UnsubscribeEnter(t)))
                 => /\ pc'[t] = "run"
                    /\ UNCHANGED <<threads, threadIds, threadsToSub,
                                   activeThreadId, mutex, sched, schedIdx,
                                   schedDone, filePtr, fileIdx, hist>>]_vars
    /\ [](\A t \in Threads : pc[t] \in {"cp_locked", "spin"} => Subscribed(t))

\* a thread that is not subscribed may call ControlPoint or Unsubscribe
\* while every subscribed thread waits in its control point, no subscriber
\* is expected and nobody has been chosen (Prepare(0) came after they had
\* entered): the call leaves this state as it is, and the chooser, had it
\* been invoked, would have decided
C18_Witness ==
    /\ Running /\ mutex = NoThread /\ Budget
    /\ threadsToSub = 0 /\ activeThreadId = NoThread
    /\ \E t, u \in Threads :
          /\ ~Subscribed(t) /\ pc[t] = "run"
          /\ Subscribed(u) /\ threads[u].isInControlPoint /\ pc[u] = "spin"

(***************************************************************************)
(* The file in RUN_PRESET.                                                 *)
(***************************************************************************)
\* the file d once the constructor has mapped it: ftruncate extends it with
\* zero bytes to whole pages, one page at least
PaddedFile(d) == MapFileToMem(d, MappedSize(Len(d)))

PCrash ==
    /\ dpc = "running"
    /\ Crash
    /\ UNCHANGED progVars

RecNext ==
    \/ ProgNext
    \/ PCrash

RecSpec == ProgInit /\ [][RecNext]_vars

\* the first run of a RUN_EXPLORE process whose constructor found a file
\* without END
Recovering ==
    runMode = "RUN_EXPLORE" /\ ~schedDone /\ runCount = 0 /\ resets = 0

\* C20: the Reset of a RUN_EXPLORE process that reads a file of k records
\* without END returns true and leaves exactly those records as the
\* sequence, with schedIdx = 0; and the run that follows is not aborted and
\* selects, decision by decision, the threadIds of the sequence
C20_IncompleteRunRepeated ==
    /\ [][(procs' = procs + 1 /\ runMode' = "RUN_EXPLORE" /\ ~schedDone') =>
             /\ ret' = "true" /\ procState' = "running"
             /\ sched' = FileRecords
             /\ schedIdx' = 0]_vars
    /\ [](Recovering =>
             /\ procState \in {"running", "crashed", "exited"}
             /\ Len(hist) <= Len(sched)
             /\ \A i \in 1..Len(hist) : hist[i] = sched[i].threadId)

\* a RUN_RANDOM run was killed after it had twice chosen the thread with
\* the higher threadId; the RUN_EXPLORE process that followed has chosen
\* it twice (a search from an empty file chooses the lowest first)
C20_Witness ==
    /\ Recovering /\ recordedMode = "RUN_RANDOM" /\ procs = 2
    /\ \A t \in Threads : cps[t] > 0
    /\ hist = <<idOf[2], idOf[2]>>

(***************************************************************************)
(* The file of one clean run.                                              *)
(***************************************************************************)
\* the text of the records of seq from the k-th on
RECURSIVE RecordsText(_, _)
RecordsText(seq, k) ==
    IF k > Len(seq) THEN <<>>
    ELSE FormatSchedPoint(seq[k]) \o RecordsText(seq, k + 1)

\* the process made one run, called no Reset and exited
OneCleanRun ==
    Writing(runMode) /\ procState = "exited" /\ runCount = 1 /\ resets = 0

\* the program starts one thread, with threadId 0
SingleThreadZero ==
    Cardinality(Part) = 1 /\ \A t \in Part : idOf[t] = 0

\* C21: after one run of a RUN_RANDOM or RUN_EXPLORE process that called no
\* Reset and exited, the file is the text of one record per decision, in
\* the order of the decisions and naming the threadId chosen, then one
\* "END" line, then zero bytes only; a program of one thread with threadId
\* 0 and k control points leaves k records "0 1 0" and END
C21_CleanRunFile ==
    OneCleanRun =>
        /\ Len(FileRecords) = Len(hist)
        /\ \A i \in DOMAIN hist : FileRecords[i].threadId = hist[i]
        /\ Len(filePtr) > Len(RecordsText(FileRecords, 1)) + Len(EndText)
        /\ filePtr = RecordsText(FileRecords, 1) \o EndText
               \o Zeros(Len(filePtr) - Len(RecordsText(FileRecords, 1))
                          - Len(EndText))
        /\ runMode = "RUN_RANDOM" => FileRecords = sched
        /\ SingleThreadZero =>
               FileRecords = [i \in 1..SumCps(Part) |->
                                 [threadId |-> 0, available |-> 1,
                                  higher |-> 0]]

\* one thread with threadId 0 has called two control points: the file is
\* "0 1 0\n0 1 0\nEND\n" and has grown beyond its first page
C21_Witness ==
    /\ OneCleanRun /\ SingleThreadZero
    /\ Len(hist) = 2
    /\ Len(filePtr) > PAGE
    /\ SubSeq(filePtr, 1, 16) =
          <<"0", " ", "1", " ", "0", "\n", "0", " ", "1", " ", "0", "\n",
            "E", "N", "D", "\n">>

(***************************************************************************)
(* The mode, from GOV_MODE.  A value is a string, a sequence of            *)
(* characters; the values tried are built from the pieces of the three     *)
(* mode names.                                                             *)
(***************************************************************************)
\* most pieces a value of GOV_MODE is built from
MaxPieces == 3

Pieces ==
    {<<"R", "U", "N", "_">>, <<"R", "A", "N", "D">>, <<"E", "X", "P">>,
     <<"P", "R", "E">>, <<"O", "M">>, <<"L", "O", "R", "E">>,
     <<"S", "E", "T">>, <<"x">>}

RECURSIVE Values(_)
Values(n) ==
    IF n = 0 THEN {<<>>}
    ELSE Values(n - 1) \cup {v \o q : v \in Values(n - 1), q \in Pieces}

EnvValues == Values(MaxPieces)

\* std::string::npos
npos == -1

\* s.rfind(str), searching back from the end of s: the last position at
\* which str occurs in s, npos if there is none
rfind(s, str) ==
    IF \E i \in 0..(Len(s) - Len(str)) : SubSeq(s, i + 1, i + Len(str)) = str
    THEN CHOOSE i \in 0..(Len(s) - Len(str)) :
            /\ SubSeq(s, i + 1, i + Len(str)) = str
            /\ \A j \in (i + 1)..(Len(s) - Len(str)) :
                   SubSeq(s, j + 1, j + Len(str)) # str
    ELSE npos

\* the lambda of the constructor: "return s.rfind(str) == 0"
starts_with(s, str) == rfind(s, str) = 0

\* "prepare run mode", for a GOV_MODE that is set to s
GovMode(s) ==
    IF s = <<"R", "U", "N", "_", "R", "A", "N", "D", "O", "M">>
           \/ starts_with(s, <<"R", "A", "N", "D">>)
    THEN "RUN_RANDOM"
    ELSE IF s = <<"R", "U", "N", "_", "E", "X", "P", "L", "O", "R", "E">>
           \/ starts_with(s, <<"E", "X", "P">>)
    THEN "RUN_EXPLORE"
    ELSE IF s = <<"R", "U", "N", "_", "P", "R", "E", "S", "E", "T">>
           \/ starts_with(s, <<"P", "R", "E">>)
    THEN "RUN_PRESET"
    ELSE "invalid_mode"

\* before the constructor: the fields' defaults, no gov.data yet, and
\* GOV_MODE unset or set to some value
ModeInit ==
    /\ \/ dpc = "env_unset" /\ input = <<>>
       \/ dpc = "env_set" /\ input \in EnvValues
    /\ procState = "unstarted"
    /\ procs = 0
    /\ runMode = "RUN_RANDOM"
    /\ filePtr = <<>>
    /\ fileIdx = 0
    /\ sched = <<>>
    /\ schedIdx = 0
    /\ schedDone = FALSE
    /\ ret = "none"
    /\ recorded = <<-1>>
    /\ recordedMode = "none"
    /\ FreshProcess
    /\ prog = [t \in Threads |-> "none"]
    /\ remaining = [t \in Threads |-> 0]
    /\ cps = [t \in Threads |-> 0]
    /\ idOf = [t \in Threads |-> 0]
    /\ NoRuns

\* Governor::Governor(): the file is created and mapped; std::abort() on a
\* value of GOV_MODE that is not recognised; otherwise Reset(true) in the
\* mode read, or in the default of _runMode when GOV_MODE is unset
ModeConstruct ==
    /\ procState = "unstarted"
    /\ dpc' = IF dpc = "env_set" THEN "constructed_set" ELSE "constructed_unset"
    /\ procs' = procs + 1
    /\ IF dpc = "env_set" /\ GovMode(input) = "invalid_mode"
       THEN /\ procState' = "invalid_mode"
            /\ filePtr' = MapFileToMem(filePtr, MappedSize(Len(filePtr)))
            /\ UNCHANGED <<runMode, fileIdx, sched, schedIdx, schedDone, ret>>
       ELSE \E g \in {Construct(IF dpc = "env_set" THEN GovMode(input)
                                 ELSE runMode, filePtr)} :
                /\ runMode' = g.runMode
                /\ filePtr' = g.filePtr
                /\ fileIdx' = g.fileIdx
                /\ sched' = g.sched
                /\ schedIdx' = g.schedIdx
                /\ schedDone' = g.schedDone
                /\ ret' = g.ret
                /\ procState' = g.procState
    /\ UNCHANGED <<regVars, activeThreadId, mutex, pc, hist, ghostVars,
                   recorded, recordedMode, prog, remaining, cps, idOf,
                   runVars, resets, input>>

ModeNext == ModeConstruct

ModeSpec == ModeInit /\ [][ModeNext]_vars

\* s begins with the characters of p
HasPrefix(s, p) == Len(s) >= Len(p) /\ SubSeq(s, 1, Len(p)) = p

\* the mode the value s of GOV_MODE is to select
ModeOf(s) ==
    IF s = <<"R", "U", "N", "_", "R", "A", "N", "D", "O", "M">>
           \/ HasPrefix(s, <<"R", "A", "N", "D">>)
    THEN "RUN_RANDOM"
    ELSE IF s = <<"R", "U", "N", "_", "E", "X", "P", "L", "O", "R", "E">>
           \/ HasPrefix(s, <<"E", "X", "P">>)
    THEN "RUN_EXPLORE"
    ELSE IF s = <<"R", "U", "N", "_", "P", "R", "E", "S", "E", "T">>
           \/ HasPrefix(s, <<"P", "R", "E">>)
    THEN "RUN_PRESET"
    ELSE "invalid_mode"

\* C22: a GOV_MODE equal to RUN_RANDOM or beginning with RAND selects
\* RUN_RANDOM, else one equal to RUN_EXPLORE or beginning with EXP selects
\* RUN_EXPLORE, else one equal to RUN_PRESET or beginning with PRE selects
\* RUN_PRESET, whatever follows the prefix; any other value that is not
\* empty aborts the process at construction; an unset GOV_MODE selects
\* RUN_RANDOM
C22_ModeFromEnv ==
    /\ dpc = "constructed_unset" =>
          (procState = "running" /\ runMode = "RUN_RANDOM")
    /\ (dpc = "constructed_set" /\ input # <<>>) =>
          IF ModeOf(input) = "invalid_mode"
          THEN procState = "invalid_mode"
          ELSE procState = "running" /\ runMode = ModeOf(input)

(***************************************************************************)
(* The reattempt of the chooser.                                           *)
(***************************************************************************)
\* the three conditions of a decision
AllThreeHold ==
    /\ threadsToSub = 0
    /\ DOMAIN threads # {}
    /\ \A s \in DOMAIN threads : threads[s].isInControlPoint

\* the step clears the flag of one subscribed thread, and nothing else of
\* the registry, and sets the gate to that thread
ChoosesOne ==
    \E c \in DOMAIN threads :
        /\ threads' = [threads EXCEPT ![c].isInControlPoint = FALSE]
        /\ activeThreadId' = c

\* a reattempt by thread t that returns to its caller
Reattempt(t) == UpdateActiveThread(t) /\ procState' = "running"

\* C23, as stated: a reattempt with one of the three conditions failing
\* leaves the gate, the flags, the sequence, the cursor and the file as
\* they were; a reattempt with the three conditions holding clears the
\* chosen thread's flag and sets the gate to it
C23_ReattemptNoOp ==
    [][\A t \in Threads :
          Reattempt(t) =>
              IF ~AllThreeHold
              THEN UNCHANGED <<activeThreadId, threads, sched, schedIdx,
                               filePtr, fileIdx>>
              ELSE ChoosesOne]_vars

\* C23, amended: a reattempt with one of the three conditions failing
\* leaves the flags, the sequence, the cursor and the file as they were,
\* and sets the gate to the sentinel if it named the caller (it leaves any
\* other gate alone); a reattempt with the three conditions holding takes
\* a decision, clears exactly the chosen thread's flag and sets the gate
\* to it
C23_ReattemptClearsOwnGate ==
    [][\A t \in Threads :
          Reattempt(t) =>
              IF ~AllThreeHold
              THEN /\ activeThreadId' =
                         (IF activeThreadId = t THEN NoThread
                          ELSE activeThreadId)
                   /\ UNCHANGED <<threads, sched, schedIdx, filePtr,
                                  fileIdx, hist>>
              ELSE /\ ChoosesOne
                   /\ Len(hist') = Len(hist) + 1]_vars

\* a thread that had been chosen has entered its next control point while
\* another subscribed thread runs outside of one: it spins, and the gate is
\* the sentinel
C23_Witness ==
    /\ Running /\ mutex = NoThread
    /\ threadsToSub = 0 /\ activeThreadId = NoThread
    /\ hist # <<>>
    /\ \E t, u \in Threads :
          /\ Subscribed(t) /\ threads[t].isInControlPoint /\ pc[t] = "spin"
          /\ Subscribed(u) /\ ~threads[u].isInControlPoint /\ pc[u] = "run"
          /\ ~released[u] /\ ~selected[u]

(***************************************************************************)
(* The next branch of the search.                                          *)
(***************************************************************************)
\* the places of s whose alternatives are not exhausted
Retained(s) == {j \in DOMAIN s : s[j].higher # 0}

\* the last of them
LastRetained(s) == CHOOSE j \in Retained(s) : \A k \in Retained(s) : k <= j

\* s without its longest suffix of entries with higher == 0, the last
\* entry left with threadId + 1 and higher - 1
Successor(s) ==
    IF Retained(s) = {} THEN <<>>
    ELSE [i \in 1..LastRetained(s) |->
             IF i < LastRetained(s) THEN s[i]
             ELSE [threadId |-> s[i].threadId + 1,
                   available |-> s[i].available,
                   higher |-> s[i].higher - 1]]

\* a step in which Reset of RUN_EXPLORE reads a completed run back: a
\* Reset() after a run that decided, or the Reset(true) of the constructor
\* on a file that ends with END
ReadsCompletedRun ==
    \/ runMode = "RUN_EXPLORE" /\ resets' = resets + 1 /\ schedIdx > 0
    \/ procs' = procs + 1 /\ runMode' = "RUN_EXPLORE" /\ schedDone'

\* C24: when Reset of RUN_EXPLORE has read the sequence of a completed run
\* back, the new sequence is its successor in the search, schedIdx is 0,
\* and the result is true if an entry remains and false if none does
C24_ResetComputesSuccessor ==
    [][ReadsCompletedRun =>
          /\ schedDone'
          /\ sched' = Successor(FileRecords)
          /\ schedIdx' = 0
          /\ ret' = IF Retained(FileRecords) = {} THEN "false" ELSE "true"]_vars

(***************************************************************************)
(* The selection of RUN_EXPLORE.                                           *)
(***************************************************************************)
\* the subscribed ids that are not below id
NotBelow(id) == {i \in DOMAIN threadIds : i >= id}

\* the id the selection rule names at cursor idx, as a set: empty where the
\* rule names an id that no subscribed thread has, or none at all
RuleIds(idx) ==
    IF idx = Len(sched)
    THEN {i \in DOMAIN threadIds : \A k \in DOMAIN threadIds : i <= k}
    ELSE IF idx < Len(sched) - 1
    THEN {sched[idx + 1].threadId} \cap DOMAIN threadIds
    ELSE IF idx = Len(sched) - 1
    THEN {i \in NotBelow(sched[idx + 1].threadId) :
             \A k \in NotBelow(sched[idx + 1].threadId) : i <= k}
    ELSE {}

\* the sequence after a decision for id e at cursor idx
RuleSched(idx, e) ==
    IF idx = Len(sched)
    THEN Append(sched, [threadId |-> e,
                        available |-> Cardinality(DOMAIN threads),
                        higher |-> Cardinality(DOMAIN threads) - 1])
    ELSE sched

\* the chooser runs in RUN_EXPLORE with the three conditions holding
ExploreChooses ==
    /\ runMode = "RUN_EXPLORE" /\ AllThreeHold
    /\ \E t \in Threads : UpdateActiveThread(t)

\* C25: in RUN_EXPLORE the chooser at cursor idx selects the smallest
\* subscribed id and appends (id, |registry|, |registry| - 1) if idx is the
\* length of the sequence, the recorded id if idx is below the last place,
\* the smallest subscribed id that is not below the recorded one if idx is
\* the last place, and schedIdx becomes idx + 1; where no subscribed
\* thread has the id the rule names, the process is aborted
C25_ExploreSelection ==
    [][ExploreChooses =>
          /\ schedIdx' = schedIdx + 1
          /\ IF RuleIds(schedIdx) = {}
             THEN procState' # "running" /\ hist' = hist
             ELSE \E e \in RuleIds(schedIdx) :
                     /\ hist' = Append(hist, e)
                     /\ activeThreadId' = threadIds[e]
                     /\ sched' = RuleSched(schedIdx, e)
                     /\ procState' = "running"]_vars

\* the last place of the sequence has been replayed with a repair: the
\* thread selected is not the one recorded there
C25_Witness ==
    /\ runMode = "RUN_EXPLORE" /\ Running
    /\ hist # <<>> /\ schedIdx = Len(sched) /\ Len(hist) = schedIdx
    /\ sched[schedIdx].threadId < hist[Len(hist)]
    /\ activeThreadId = threadIds[hist[Len(hist)]]

(***************************************************************************)
(* The departure of a thread.                                              *)
(***************************************************************************)
\* the second step of an Unsubscribe of thread t that returns: the
\* removal is done, the chooser is reattempted and the mutex released
Departs(t) == pc[t] = "unsub_locked" /\ Reattempt(t)

\* C26: when the three conditions hold after the removal of a departing
\* thread, its Unsubscribe takes a decision and sets the gate to one of
\* the remaining threads in the step that releases the mutex; the gate
\* never names the departing thread after the call
C26_DepartureHandsOff ==
    [][\A t \in Threads :
          Departs(t) =>
              /\ activeThreadId' # t
              /\ AllThreeHold =>
                    /\ ChoosesOne
                    /\ Len(hist') = Len(hist) + 1
                    /\ activeThreadId' \in DOMAIN threads \ {t}
                    /\ mutex = t /\ mutex' = NoThread]_vars

\* the active thread has been removed by its Unsubscribe, which holds the
\* mutex, and every remaining thread waits in a control point
C26_Witness ==
    /\ Running /\ AllThreeHold
    /\ \E t \in Threads :
          /\ pc[t] = "unsub_locked" /\ mutex = t /\ activeThreadId = t
          /\ t \notin DOMAIN threads
          /\ \A s \in DOMAIN threads : pc[s] = "spin"

(***************************************************************************)
(* What a selection depends on.                                            *)
(***************************************************************************)
\* the smallest element of a set of ids
Smallest(ids) == CHOOSE m \in ids : \A x \in ids : m <= x

\* the threadId selected, as a function of the mode, the stored sequence,
\* the cursor, the set of subscribed threadIds and the draw of the RNG
SelectedId(mode, seq, idx, ids, draw) ==
    CASE mode = "RUN_RANDOM" -> draw
      [] mode = "RUN_PRESET" -> seq[idx + 1].threadId
      [] mode = "RUN_EXPLORE" ->
           IF idx = Len(seq) THEN Smallest(ids)
           ELSE IF idx < Len(seq) - 1 THEN seq[idx + 1].threadId
           ELSE Smallest({i \in ids : i >= seq[idx + 1].threadId})

\* the record of the selection of id e, as a function of the same
SelectedPoint(mode, seq, idx, ids, e) ==
    IF mode = "RUN_RANDOM"
    THEN [threadId |-> e, available |-> Cardinality(ids),
          higher |-> Cardinality({i \in ids : i > e})]
    ELSE IF idx = Len(seq)
    THEN [threadId |-> e, available |-> Cardinality(ids),
          higher |-> Cardinality(ids) - 1]
    ELSE [seq[idx + 1] EXCEPT !.threadId = e]

\* the draws a decision can make
Draws == IF runMode = "RUN_RANDOM" THEN DOMAIN threadIds ELSE {0}

\* the step selects e and writes its record
SelectsAndWrites(e) ==
    /\ hist' = Append(hist, e)
    /\ activeThreadId' = threadIds[e]
    /\ IF Writing(runMode)
       THEN \E w \in {WriteToFile(filePtr, fileIdx, FormatSchedPoint(
                         SelectedPoint(runMode, sched, schedIdx,
                                       DOMAIN threadIds, e)))} :
                filePtr' = w.filePtr /\ fileIdx' = w.fileIdx
       ELSE UNCHANGED <<filePtr, fileIdx>>

\* C27: the threadId selected at a decision, and the record written for
\* it, are determined by the mode, the stored sequence, schedIdx, the set
\* of subscribed threadIds and, in RUN_RANDOM, the draw: the thread
\* identities, the order of the subscriptions and the order of the
\* arrivals at the control points have no part in them
C27_SelectionDeterminedByIds ==
    [][Decides =>
          \E draw \in Draws :
              SelectsAndWrites(SelectedId(runMode, sched, schedIdx,
                                          DOMAIN threadIds, draw))]_vars

\* a first decision of RUN_EXPLORE has selected the smaller threadId,
\* which the thread of the larger identity had subscribed with
C27_Witness ==
    /\ runMode = "RUN_EXPLORE" /\ Running /\ Len(hist) = 1
    /\ \E t, u \in DOMAIN threads :
          /\ t < u /\ threads[t].threadId > threads[u].threadId
          /\ activeThreadId = u /\ hist[1] = threads[u].threadId
          /\ sched[1].threadId = hist[1]

(***************************************************************************)
(* Stranded threads.                                                       *)
(***************************************************************************)
\* every subscribed thread spins in its control point, scheduling is
\* enabled, and the gate names no thread
Stranded ==
    /\ threadsToSub = 0
    /\ DOMAIN threads # {}
    /\ \A s \in DOMAIN threads : threads[s].isInControlPoint
    /\ activeThreadId = NoThread

\* C28: whenever no operation is in progress in a running process, the
\* governor is not in a state in which the expected-subscriber count is
\* zero, the registry is non-empty, every subscribed thread is in a
\* control point and the gate is the sentinel
C28_NeverStranded == (Running /\ mutex = NoThread) => ~Stranded

(***************************************************************************)
(* The thread selected by RUN_EXPLORE exists.                              *)
(***************************************************************************)
\* C29: in the runs of a program, whenever the chooser of RUN_EXPLORE
\* runs with the three conditions holding, the cursor is within the
\* sequence or at its end, a subscribed thread has the id that the rule
\* names (at the last place: some subscribed id is not below the recorded
\* one), the thread selected is subscribed and no assertion fails
C29_ExploreSelectsSubscribed ==
    [][ExploreChooses =>
          /\ schedIdx <= Len(sched)
          /\ RuleIds(schedIdx) # {}
          /\ procState' = "running"
          /\ activeThreadId' \in DOMAIN threads
          /\ threads[activeThreadId'].threadId = hist'[Len(hist')]]_vars

\* after a Reset the last place of the sequence named an id that no
\* thread subscribes with, and the decision replaying it has selected a
\* subscribed thread with a higher id
C29_Witness ==
    /\ runMode = "RUN_EXPLORE" /\ Running /\ runCount >= 1
    /\ hist # <<>> /\ schedIdx = Len(sched) /\ Len(hist) = schedIdx
    /\ \A t \in Part : sched[schedIdx].threadId # idOf[t]
    /\ activeThreadId \in DOMAIN threads
    /\ threads[activeThreadId].threadId = hist[Len(hist)]
    /\ hist[Len(hist)] > sched[schedIdx].threadId

(***************************************************************************)
(* The records of RUN_EXPLORE can be replayed.                             *)
(***************************************************************************)
\* the record that describes the decision the step has taken: the id of
\* the thread released, the size of the registry and the number of
\* subscribed ids above that id
DecisionRecord ==
    [threadId |-> hist'[Len(hist')],
     available |-> Cardinality(DOMAIN threads),
     higher |-> Cardinality({s \in DOMAIN threads :
                               threads[s].threadId > hist'[Len(hist')]})]

\* the step has written the record sp at the place fileIdx of the file
WrittenAtCursor(sp) ==
    \E r \in {SchedPointRead(filePtr', fileIdx)} :
        /\ r.nchars > 0
        /\ r.sp = sp
        /\ fileIdx' = fileIdx + r.nchars

\* the process replays the last run of a RUN_EXPLORE process that exited
ReplayingExplore ==
    runMode = "RUN_PRESET" /\ recordedMode = "RUN_EXPLORE"
        /\ recorded # <<-1>>

\* C30: in the runs of a program, the record that a decision of
\* RUN_EXPLORE writes names the thread released, with available the size
\* of the registry and higher the number of subscribed ids above it; and a
\* RUN_PRESET process on the file of a RUN_EXPLORE run that exited never
\* aborts on a consistency check and takes the decisions of that run
C30_ExploreFileReplayable ==
    /\ [][(runMode = "RUN_EXPLORE" /\ Decides) =>
             /\ activeThreadId' \in DOMAIN threads
             /\ threads[activeThreadId'].threadId = hist'[Len(hist')]
             /\ WrittenAtCursor(DecisionRecord)]_vars
    /\ [](ReplayingExplore =>
             /\ procState \notin PresetAborts
             /\ IsPrefix(hist, recorded)
             /\ dpc = "joined" => hist = recorded)

\* the replay of a run of RUN_EXPLORE has been joined, in which the first
\* decision had selected the higher id across a gap of the ids
C30_Witness ==
    /\ ReplayingExplore /\ dpc = "joined" /\ hist = recorded
    /\ Len(hist) >= 2
    /\ \E t, u \in Part :
          idOf[t] + 1 < idOf[u] /\ hist[1] = idOf[u]

(***************************************************************************)
(* The order of the runs of RUN_EXPLORE.                                   *)
(***************************************************************************)
\* a is below b in the lexicographic order of the threadIds
LexLess(a, b) ==
    \/ Len(a) < Len(b) /\ SubSeq(b, 1, Len(a)) = a
    \/ \E k \in DOMAIN a \cap DOMAIN b :
          /\ a[k] < b[k]
          /\ \A j \in 1..(k - 1) : a[j] = b[j]

\* the driver joins a run of RUN_EXPLORE
JoinsExploreRun == runMode = "RUN_EXPLORE" /\ runCount' = runCount + 1

\* C31: in the runs of a program under RUN_EXPLORE, the sequence of
\* threadIds selected in a run that is joined is above, in the
\* lexicographic order, that of the run joined before it and that of every
\* earlier run of the process, so that no sequence is executed twice; and
\* when Reset finds the search exhausted in a process that began with an
\* empty file, as many runs were joined as the program has interleavings
C31_StrictDfsOrder ==
    /\ [][JoinsExploreRun =>
             /\ runCount > 0 => LexLess(lastRun, hist)
             /\ \A r \in runs : LexLess(r, hist)
             /\ hist \notin runs]_vars
    /\ [](runMode = "RUN_EXPLORE" => Cardinality(runs) = runCount)
    /\ []((runMode = "RUN_EXPLORE" /\ procs = 1
               /\ procState = "explore_last_state")
            => runCount = Cardinality(Interleavings))

\* a third run has been joined whose first decision differs from that of
\* the run before it: the search has gone back to the first decision
C31_Witness ==
    /\ runMode = "RUN_EXPLORE" /\ Running /\ dpc = "joined"
    /\ runCount >= 3 /\ lastRun = hist
    /\ prevRun[1] < lastRun[1]
    /\ LexLess(prevRun, lastRun)
==========================================================================
